---- MODULE Spec2Model ----
(***************************************************************************)
(* PyRush load-execution engine: StressTester.run_test (the supervisor),   *)
(* the ramp_up controller, and requestor.worker / make_request, at the     *)
(* granularity of the asyncio suspension points of the coroutines.         *)
(*                                                                         *)
(* The asyncio.Queue is filled once, before any worker runs, with the ids  *)
(* 0..n-1 followed by the stop signals, and is only popped afterwards; it  *)
(* is kept as the fixed content plus the number of items already taken.    *)
(* CancelledError is a BaseException (Python 3.8 and later), so neither    *)
(* `except Exception` of make_request nor that of worker catches it.       *)
(***************************************************************************)
EXTENDS Integers, Sequences, FiniteSets, TLC

\* ---- bounds of the model
MaxRequests == 3
MaxConcurrency == 2
MaxUrls == 2
MaxClock == 1
\* ids a duration-based run may take from its queue of DurationRequests ids
MaxIssued == 2

\* ---- program constants
\* core.py: num_requests = 1000000 when config.duration is set
DurationRequests == 1000000

\* None as the value of a time not yet taken, of no id held, and as the stop
\* signal on the queue (ids and times are never negative)
NoId == -1
NoTime == -1
STOP == -2

Workers == 1..MaxConcurrency

\* tester.lock as created by threading.Lock(): held by no task
NoHolder == 0

VARIABLES
    cfg,              \* TestConfig and the step-load settings of the tester
    now,              \* time.time()
    sup_pc,           \* position of run_test
    start_time,       \* tester.start_time
    end_time,         \* tester.end_time
    request_queue,    \* the asyncio.Queue: content and number of items taken
    unfinished_tasks, \* the queue's count of items put and not yet task_done
    workers,          \* len(workers): tasks created so far, numbered 1..workers
    gathered,         \* the tasks 1..gathered are those the pending gather awaits
    wk,               \* per worker task: position, held id, dispatch time, cancel request
    current_c,        \* ramp_up's current_c
    ramp_pc,          \* position of the ramp_up task
    ramp_steps,       \* number of interval sleeps of ramp_up that have elapsed
    results,          \* tester.results
    pulled,           \* history: the ids get() has returned, in order
    call,             \* a function of the tester called on its own, with its inputs
    ret,              \* what that call returned
    lock,             \* tester.lock: the task that holds it
    trace_dns,        \* run_test's trace_dns dict: 'start' and 'end'
    trace_connect,    \* run_test's trace_connect dict: 'start' and 'end'
    dns_times,        \* tester.dns_times
    connect_times     \* tester.connect_times

vars == <<cfg, now, sup_pc, start_time, end_time, request_queue, unfinished_tasks,
          workers, gathered, wk, current_c, ramp_pc, ramp_steps, results, pulled, call, ret, lock,
          trace_dns, trace_connect, dns_times, connect_times>>

Min(a, b) == IF a < b THEN a ELSE b

\* ---- configuration

\* create_test_config_from_args: num_requests >= concurrency is the validation;
\* cli.main copies the step-load arguments to the tester without any check.
Configs ==
    { c \in [num_requests : 1..MaxRequests,
             concurrency : 1..MaxConcurrency,
             url_count : 1..MaxUrls,
             duration : BOOLEAN,
             rate_limit : BOOLEAN,
             step_load : BOOLEAN,
             step_initial : 1..MaxConcurrency,
             step_max : 1..MaxConcurrency,
             step_increment : 1..MaxConcurrency] :
        /\ c.num_requests >= c.concurrency
        /\ ~c.step_load =>
              /\ c.step_initial = 1
              /\ c.step_max = c.concurrency
              /\ c.step_increment = 1 }

\* ---- the queue

NumRequests_OneShort(c) == IF c.duration THEN DurationRequests ELSE c.num_requests - 1

\* run_test: the number of ids put on the queue
NumRequests(c) == IF c.duration THEN DurationRequests ELSE c.num_requests

NumStops_OneMore(c) == c.concurrency + 1

NumStops_Initial(c) == IF c.step_load THEN c.step_initial ELSE c.concurrency

\* run_test: one stop signal per unit of config.concurrency
NumStops(c) == c.concurrency

\* run_test: ids 0..n-1, then the stop signals
FillQueue(c) == [ids |-> NumRequests(c), stops |-> NumStops(c), taken |-> 0]

QueueSize(q) == q.ids + q.stops - q.taken

QueueEmpty(q) == QueueSize(q) = 0

QueueFront_StopsFirst(q) == IF q.taken < q.stops THEN STOP ELSE q.taken - q.stops

\* FIFO: the item get() returns next
QueueFront(q) == IF q.taken < q.ids THEN q.taken ELSE STOP

QueuePop_Peek(q) == q

QueuePop(q) == [q EXCEPT !.taken = @ + 1]

\* asyncio.Queue.task_done as the worker calls it: the ValueError of a call
\* with nothing unfinished is swallowed by `except Exception: pass`
task_done(u) == IF u <= 0 THEN u ELSE u - 1

\* ---- worker tasks

IdleWorker == [pc |-> "none", request_id |-> NoId, timestamp |-> NoTime, cancel |-> FALSE]

NewWorker == [IdleWorker EXCEPT !.pc = "start"]

Exited(w) == wk[w].pc = "done"

Live(w) == wk[w].pc \in {"start", "get", "sleep", "request"}

\* asyncio.create_task(worker(...)) k times; workers.append(w)
Spawn(k) ==
    /\ workers' = workers + k
    /\ wk' = [w \in Workers |->
                IF w > workers /\ w <= workers + k THEN NewWorker ELSE wk[w]]

\* the event loop runs tasks until run_test returns and asyncio.run tears it down
Running == sup_pc \notin {"init", "done"}

SelectUrl_First(id) == 0

\* worker: urls[request_id % url_count]
SelectUrl(id) == id % cfg.url_count

MakeResult_SwappedDelta(id, t0, outcome) ==
    [request_id |-> id,
     url |-> id % cfg.url_count,
     status_code |-> IF outcome = "response" THEN 200 ELSE 0,
     response_time |-> t0 - now,
     timestamp |-> t0,
     error |-> IF outcome = "response" THEN "nil" ELSE "exception"]

MakeResult_ErrorKeepsStatus(id, t0, outcome) ==
    [request_id |-> id,
     url |-> id % cfg.url_count,
     status_code |-> 200,
     response_time |-> now - t0,
     timestamp |-> t0,
     error |-> IF outcome = "response" THEN "nil" ELSE "exception"]

\* make_request: the RequestResult of a response, or of an exception caught
\* by `except Exception`; request_id is bookkeeping, not a field of the source
MakeResult(id, t0, outcome) ==
    [request_id |-> id,
     url |-> SelectUrl(id),
     status_code |-> IF outcome = "response" THEN 200 ELSE 0,
     response_time |-> now - t0,
     timestamp |-> t0,
     error |-> IF outcome = "response" THEN "nil" ELSE "exception"]

Outcomes == {"response", "exception"}

\* ---- initial state: the tester as constructed by cli.main, before run_test

NoCall == [fn |-> "none"]

\* a trace dict without keys: trace_dns = {} and trace_connect = {}
EmptySlot == [start |-> NoTime, end |-> NoTime]

\* 'end' in slot and 'start' in slot
SlotComplete(slot) == slot.end # NoTime /\ slot.start # NoTime

\* StressTester.__init__ and the state of run_test before its first statement
NotStarted ==
    /\ now = 0
    /\ sup_pc = "init"
    /\ start_time = NoTime
    /\ end_time = NoTime
    /\ request_queue = [ids |-> 0, stops |-> 0, taken |-> 0]
    /\ unfinished_tasks = 0
    /\ workers = 0
    /\ gathered = 0
    /\ wk = [w \in Workers |-> IdleWorker]
    /\ current_c = 0
    /\ ramp_pc = "none"
    /\ ramp_steps = 0
    /\ results = <<>>
    /\ pulled = <<>>
    /\ lock = NoHolder
    /\ trace_dns = EmptySlot
    /\ trace_connect = EmptySlot
    /\ dns_times = <<>>
    /\ connect_times = <<>>

Init ==
    /\ cfg \in Configs
    /\ NotStarted
    /\ call = NoCall
    /\ ret = NoCall

\* ---- the clock

Tick ==
    /\ now < MaxClock
    /\ now' = now + 1
    /\ UNCHANGED <<cfg, sup_pc, start_time, end_time, request_queue, unfinished_tasks,
                   workers, gathered, wk, current_c, ramp_pc, ramp_steps, results, pulled, call, ret, lock,
                   trace_dns, trace_connect, dns_times, connect_times>>

\* ---- run_test

InitialWorkers_Concurrency(c) == c.concurrency

InitialWorkers_OneMore(c) ==
    Min(MaxConcurrency, (IF c.step_load THEN c.step_initial ELSE c.concurrency) + 1)

InitialWorkers_OneShort(c) == IF c.step_load THEN c.step_initial ELSE c.concurrency - 1

\* the number of worker tasks created before the first await on a gather
InitialWorkers(c) == IF c.step_load THEN c.step_initial ELSE c.concurrency

\* run_test up to its first suspension: start_time, the queue, the first
\* workers and the ramp_up task (which sleeps only while current_c < max_c)
SupStart ==
    /\ sup_pc = "init"
    /\ start_time' = now
    /\ request_queue' = FillQueue(cfg)
    /\ unfinished_tasks' = NumRequests(cfg) + NumStops(cfg)
    /\ Spawn(InitialWorkers(cfg))
    /\ gathered' = InitialWorkers(cfg)
    /\ current_c' = IF cfg.step_load THEN cfg.step_initial ELSE 0
    /\ ramp_pc' = IF cfg.step_load
                  THEN (IF cfg.step_initial < cfg.step_max THEN "sleep" ELSE "done")
                  ELSE "none"
    /\ sup_pc' = "gather"
    /\ UNCHANGED <<cfg, now, end_time, ramp_steps, results, pulled, call, ret, lock,
                   trace_dns, trace_connect, dns_times, connect_times>>

AllGatheredExited == \A w \in 1..gathered : Exited(w)

\* asyncio.gather(*workers) returns (inside wait_for when duration is set)
SupGatherDone ==
    /\ sup_pc = "gather"
    /\ AllGatheredExited
    /\ sup_pc' = "join"
    /\ UNCHANGED <<cfg, now, start_time, end_time, request_queue, unfinished_tasks,
                   workers, gathered, wk, current_c, ramp_pc, ramp_steps, results, pulled, call, ret, lock,
                   trace_dns, trace_connect, dns_times, connect_times>>

\* task.cancel() on the tasks 1..k that have not finished
CancelTasks(k) ==
    wk' = [w \in Workers |->
             IF w <= k /\ Live(w) THEN [wk[w] EXCEPT !.cancel = TRUE] ELSE wk[w]]

\* the timeout of wait_for(gather, timeout=duration) expires: wait_for cancels
\* the gather, which cancels the tasks it awaits, and waits for it
DeadlineFires ==
    /\ sup_pc = "gather"
    /\ cfg.duration
    /\ ~AllGatheredExited
    /\ CancelTasks(gathered)
    /\ sup_pc' = "timeout"
    /\ UNCHANGED <<cfg, now, start_time, end_time, request_queue, unfinished_tasks,
                   workers, gathered, current_c, ramp_pc, ramp_steps, results, pulled, call, ret, lock,
                   trace_dns, trace_connect, dns_times, connect_times>>

\* except asyncio.TimeoutError: cancel every task of the workers list as it is
\* now, then gather them with return_exceptions=True
SupCancelAll ==
    /\ sup_pc = "timeout"
    /\ AllGatheredExited
    /\ CancelTasks(workers)
    /\ gathered' = workers
    /\ sup_pc' = "gather_cancelled"
    /\ UNCHANGED <<cfg, now, start_time, end_time, request_queue, unfinished_tasks,
                   workers, current_c, ramp_pc, ramp_steps, results, pulled, call, ret, lock,
                   trace_dns, trace_connect, dns_times, connect_times>>

SupGatherCancelled ==
    /\ sup_pc = "gather_cancelled"
    /\ AllGatheredExited
    /\ sup_pc' = "join"
    /\ UNCHANGED <<cfg, now, start_time, end_time, request_queue, unfinished_tasks,
                   workers, gathered, wk, current_c, ramp_pc, ramp_steps, results, pulled, call, ret, lock,
                   trace_dns, trace_connect, dns_times, connect_times>>

\* asyncio.Queue.join returns when nothing is unfinished
JoinReturns(u) == u = 0

\* request_queue.join() returns; leaving `async with` awaits the session's close
SupJoin ==
    /\ sup_pc = "join"
    /\ JoinReturns(unfinished_tasks)
    /\ sup_pc' = "close"
    /\ UNCHANGED <<cfg, now, start_time, end_time, request_queue, unfinished_tasks,
                   workers, gathered, wk, current_c, ramp_pc, ramp_steps, results, pulled, call, ret, lock,
                   trace_dns, trace_connect, dns_times, connect_times>>

\* the final timing collection: the slot's end - start is appended if the
\* slot has both keys
TraceSample(times, slot) ==
    IF SlotComplete(slot) THEN Append(times, slot.end - slot.start) ELSE times

\* the session is closed; the timing of the two trace slots is collected,
\* end_time is recorded and run_test returns
SupClose ==
    /\ sup_pc = "close"
    /\ dns_times' = TraceSample(dns_times, trace_dns)
    /\ connect_times' = TraceSample(connect_times, trace_connect)
    /\ end_time' = now
    /\ sup_pc' = "done"
    /\ UNCHANGED <<cfg, now, start_time, request_queue, unfinished_tasks,
                   workers, gathered, wk, current_c, ramp_pc, ramp_steps, results, pulled, call, ret, lock,
                   trace_dns, trace_connect>>

\* ---- ramp_up

RampAdd_NoMin(c, cur) == c.step_increment

\* ramp_up: add = min(increment, max_c - current_c)
RampAdd(c, cur) == Min(c.step_increment, c.step_max - cur)

\* one iteration of ramp_up's loop: the interval sleep ends, add workers
RampStep ==
    /\ Running
    /\ ramp_pc = "sleep"
    /\ Spawn(RampAdd(cfg, current_c))
    /\ current_c' = current_c + RampAdd(cfg, current_c)
    /\ ramp_steps' = ramp_steps + 1
    /\ ramp_pc' = IF current_c' < cfg.step_max THEN "sleep" ELSE "done"
    /\ UNCHANGED <<cfg, now, sup_pc, start_time, end_time, request_queue,
                   unfinished_tasks, gathered, results, pulled, call, ret, lock,
                   trace_dns, trace_connect, dns_times, connect_times>>

\* ---- worker

\* the task runs up to `await asyncio.wait_for(request_queue.get(), timeout=1.0)`
WorkerStart(w) ==
    /\ Running
    /\ wk[w].pc = "start"
    /\ ~wk[w].cancel
    /\ wk' = [wk EXCEPT ![w].pc = "get"]
    /\ UNCHANGED <<cfg, now, sup_pc, start_time, end_time, request_queue, unfinished_tasks,
                   workers, gathered, current_c, ramp_pc, ramp_steps, results, pulled, call, ret, lock,
                   trace_dns, trace_connect, dns_times, connect_times>>

AfterGet_NoPace(w, item) ==
    IF item = STOP
    THEN /\ wk' = [wk EXCEPT ![w].pc = "done"]
         /\ unfinished_tasks' = task_done(unfinished_tasks)
         /\ pulled' = pulled
    ELSE /\ wk' = [wk EXCEPT ![w] = [@ EXCEPT !.pc = "request", !.request_id = item,
                                              !.timestamp = now]]
         /\ unfinished_tasks' = unfinished_tasks
         /\ pulled' = Append(pulled, item)

\* the worker after get() returned item: break on the stop signal (the finally
\* clause calls task_done), else pace if rate_limit is set, else make_request
\* starts and takes its timestamp
AfterGet(w, item) ==
    IF item = STOP
    THEN /\ wk' = [wk EXCEPT ![w].pc = "done"]
         /\ unfinished_tasks' = task_done(unfinished_tasks)
         /\ pulled' = pulled
    ELSE /\ wk' = [wk EXCEPT ![w] =
                     IF cfg.rate_limit
                     THEN [@ EXCEPT !.pc = "sleep", !.request_id = item]
                     ELSE [@ EXCEPT !.pc = "request", !.request_id = item,
                                    !.timestamp = now]]
         /\ unfinished_tasks' = unfinished_tasks
         /\ pulled' = Append(pulled, item)

\* get() returns the front item of the queue
WorkerGet(w) ==
    /\ Running
    /\ wk[w].pc = "get"
    /\ ~wk[w].cancel
    /\ ~QueueEmpty(request_queue)
    /\ cfg.duration => request_queue.taken < MaxIssued
    /\ request_queue' = QueuePop(request_queue)
    /\ AfterGet(w, QueueFront(request_queue))
    /\ UNCHANGED <<cfg, now, sup_pc, start_time, end_time,
                   workers, gathered, current_c, ramp_pc, ramp_steps, results, call, ret, lock,
                   trace_dns, trace_connect, dns_times, connect_times>>

\* the queue stays empty for 1.0 s: asyncio.TimeoutError, break, finally task_done
WorkerGetTimeout(w) ==
    /\ Running
    /\ wk[w].pc = "get"
    /\ ~wk[w].cancel
    /\ QueueEmpty(request_queue)
    /\ wk' = [wk EXCEPT ![w].pc = "done"]
    /\ unfinished_tasks' = task_done(unfinished_tasks)
    /\ UNCHANGED <<cfg, now, sup_pc, start_time, end_time, request_queue,
                   workers, gathered, current_c, ramp_pc, ramp_steps, results, pulled, call, ret, lock,
                   trace_dns, trace_connect, dns_times, connect_times>>

\* asyncio.sleep(1.0 / rate_limit) ends; make_request starts
WorkerPace(w) ==
    /\ Running
    /\ wk[w].pc = "sleep"
    /\ ~wk[w].cancel
    /\ wk' = [wk EXCEPT ![w].pc = "request", ![w].timestamp = now]
    /\ UNCHANGED <<cfg, now, sup_pc, start_time, end_time, request_queue, unfinished_tasks,
                   workers, gathered, current_c, ramp_pc, ramp_steps, results, pulled, call, ret, lock,
                   trace_dns, trace_connect, dns_times, connect_times>>

\* threading.Lock.acquire by task w; the caller waits while the lock is held
RequestTiming_FromSlot(slot) ==
    IF SlotComplete(slot) THEN <<slot.end - slot.start>> ELSE <<>>

\* make_request's dns_time and connect_time, as the list of values to append:
\* both are set to None and nothing assigns them afterwards
RequestTiming(slot) == <<>>

\* `if dns_time is not None: tester.dns_times.append(dns_time)`, and the same
\* for connect_time
AppendTiming(times, t) == times \o t

LockAcquire(l, w) == w

LockRelease_Held(l) == l

\* threading.Lock.release
LockRelease(l) == NoHolder

\* a `with tester.lock:` block run by task w: no await between its acquire
\* and its release
WithLock(l, w) == LockRelease(LockAcquire(l, w))

Submit_Prepend(rs, r) == <<r>> \o rs

Submit_Drop(rs, r) == rs

\* tester.results.append(result)
Submit(rs, r) == Append(rs, r)

\* make_request returns (after its own lock block when it got a response);
\* the result is appended under the lock, the finally clause calls task_done,
\* and the loop is back at get()
WorkerComplete(w) ==
    /\ Running
    /\ wk[w].pc = "request"
    /\ ~wk[w].cancel
    /\ lock = NoHolder
    /\ \E outcome \in Outcomes :
         /\ results' = Submit(results, MakeResult(wk[w].request_id, wk[w].timestamp, outcome))
         /\ lock' = IF outcome = "response"
                    THEN WithLock(WithLock(lock, w), w)
                    ELSE WithLock(lock, w)
         /\ dns_times' = IF outcome = "response"
                         THEN AppendTiming(dns_times, RequestTiming(trace_dns))
                         ELSE dns_times
         /\ connect_times' = IF outcome = "response"
                             THEN AppendTiming(connect_times, RequestTiming(trace_connect))
                             ELSE connect_times
    /\ unfinished_tasks' = task_done(unfinished_tasks)
    /\ wk' = [wk EXCEPT ![w] = [IdleWorker EXCEPT !.pc = "get"]]
    /\ UNCHANGED <<cfg, now, sup_pc, start_time, end_time, request_queue,
                   workers, gathered, current_c, ramp_pc, ramp_steps, pulled, call, ret,
                   trace_dns, trace_connect>>

\* the finally clause of the loop as CancelledError passes through it; a task
\* cancelled before its first step never enters the loop
CancelledTaskDone(pc, u) == IF pc = "start" THEN u ELSE task_done(u)

\* CancelledError is thrown into the task at its suspension point
WorkerCancelled(w) ==
    /\ Running
    /\ Live(w)
    /\ wk[w].cancel
    /\ unfinished_tasks' = CancelledTaskDone(wk[w].pc, unfinished_tasks)
    /\ wk' = [wk EXCEPT ![w] = [IdleWorker EXCEPT !.pc = "done"]]
    /\ UNCHANGED <<cfg, now, sup_pc, start_time, end_time, request_queue,
                   workers, gathered, current_c, ramp_pc, ramp_steps, results, pulled, call, ret, lock,
                   trace_dns, trace_connect, dns_times, connect_times>>

\* a step of a worker task that has not been cancelled
WorkerRun(w) ==
    \/ WorkerStart(w)
    \/ WorkerGet(w)
    \/ WorkerGetTimeout(w)
    \/ WorkerPace(w)
    \/ WorkerComplete(w)

\* run_test when config.duration is not set
CountSupervisor ==
    \/ SupStart
    \/ SupGatherDone
    \/ SupJoin
    \/ SupClose

\* run_test's handling of the duration timeout
DurationSupervisor ==
    \/ DeadlineFires
    \/ SupCancelAll
    \/ SupGatherCancelled

Next ==
    \/ CountSupervisor
    \/ DurationSupervisor
    \/ RampStep
    \/ \E w \in Workers : WorkerRun(w)
    \/ \E w \in Workers : WorkerCancelled(w)

Spec == Init /\ [][Next]_vars

\* ---- the same runs with time passing between the steps

NextTimed ==
    \/ Tick
    \/ Next

SpecTimed == Init /\ [][NextTimed]_vars

\* ---- count-based runs (config.duration not set), with the scheduling of the
\* event loop: every task that can take a step eventually takes it, every
\* timer expires, and every request returns or fails within its timeout

\* the url list has no part in the control flow: one url here
InitCount == Init /\ ~cfg.duration /\ cfg.url_count = 1

NextCount ==
    \/ CountSupervisor
    \/ RampStep
    \/ \E w \in Workers : WorkerRun(w)

FairCount ==
    /\ WF_vars(CountSupervisor)
    /\ WF_vars(RampStep)
    /\ \A w \in Workers : WF_vars(WorkerRun(w))

SpecCount == InitCount /\ [][NextCount]_vars /\ FairCount

\* ---- count-based runs with the trace callbacks of the session

\* a request is in progress on the session: aiohttp reports the DNS
\* resolutions and connection creations it makes for it to the callbacks
SessionBusy == Running /\ \E w \in Workers : wk[w].pc = "request"

\* trace_dns['start'] = time.time()
on_dns_resolvehost_start ==
    /\ SessionBusy
    /\ trace_dns' = [trace_dns EXCEPT !.start = now]
    /\ UNCHANGED <<cfg, now, sup_pc, start_time, end_time, request_queue, unfinished_tasks,
                   workers, gathered, wk, current_c, ramp_pc, ramp_steps, results, pulled,
                   call, ret, lock, trace_connect, dns_times, connect_times>>

\* trace_dns['end'] = time.time()
on_dns_resolvehost_end ==
    /\ SessionBusy
    /\ trace_dns' = [trace_dns EXCEPT !.end = now]
    /\ UNCHANGED <<cfg, now, sup_pc, start_time, end_time, request_queue, unfinished_tasks,
                   workers, gathered, wk, current_c, ramp_pc, ramp_steps, results, pulled,
                   call, ret, lock, trace_connect, dns_times, connect_times>>

\* trace_connect['start'] = time.time()
on_connection_create_start ==
    /\ SessionBusy
    /\ trace_connect' = [trace_connect EXCEPT !.start = now]
    /\ UNCHANGED <<cfg, now, sup_pc, start_time, end_time, request_queue, unfinished_tasks,
                   workers, gathered, wk, current_c, ramp_pc, ramp_steps, results, pulled,
                   call, ret, lock, trace_dns, dns_times, connect_times>>

\* trace_connect['end'] = time.time()
on_connection_create_end ==
    /\ SessionBusy
    /\ trace_connect' = [trace_connect EXCEPT !.end = now]
    /\ UNCHANGED <<cfg, now, sup_pc, start_time, end_time, request_queue, unfinished_tasks,
                   workers, gathered, wk, current_c, ramp_pc, ramp_steps, results, pulled,
                   call, ret, lock, trace_dns, dns_times, connect_times>>

TraceCallbacks ==
    \/ on_dns_resolvehost_start
    \/ on_dns_resolvehost_end
    \/ on_connection_create_start
    \/ on_connection_create_end

\* no duration, no ramp plan, no rate limit: every worker takes exactly one
\* stop signal, so no get() times out and no task is cancelled
InitTrace ==
    /\ Init
    /\ ~cfg.duration
    /\ ~cfg.step_load
    /\ ~cfg.rate_limit
    /\ cfg.url_count = 1

NextTrace ==
    \/ Tick
    \/ CountSupervisor
    \/ TraceCallbacks
    \/ \E w \in Workers : WorkerStart(w)
    \/ \E w \in Workers : WorkerGet(w)
    \/ \E w \in Workers : WorkerComplete(w)

SpecTrace == InitTrace /\ [][NextTrace]_vars

\* ---- properties

\* TestConfig as the data model allows it: a RampPlan has
\* 1 <= initial <= max <= concurrency and increment >= 1
ValidPlan ==
    cfg.step_load =>
        /\ 1 <= cfg.step_initial
        /\ cfg.step_initial <= cfg.step_max
        /\ cfg.step_max <= cfg.concurrency
        /\ cfg.step_increment >= 1

CountNoRamp == ~cfg.duration /\ ~cfg.step_load

AllExited == \A w \in 1..workers : Exited(w)

ResultsOf(id) == {k \in DOMAIN results : results[k].request_id = id}

AttemptsOn(url) == Cardinality({k \in DOMAIN results : results[k].url = url})

\* C1: a completed count-based run without ramp holds exactly num_requests
\* results, exactly one for each id 0..num_requests-1
C1_OneResultPerId ==
    (CountNoRamp /\ sup_pc = "done") =>
        /\ Len(results) = cfg.num_requests
        /\ \A id \in 0..(cfg.num_requests - 1) : Cardinality(ResultsOf(id)) = 1

C1_Witness ==
    /\ CountNoRamp
    /\ sup_pc = "done"
    /\ cfg.concurrency = 2
    /\ cfg.num_requests = 3
    /\ \E j, k \in DOMAIN results :
          results[j].error = "nil" /\ results[k].error # "nil"

\* C2: no id is handed out twice: whatever the interleaving of the workers'
\* pulls, get() returns each id at most once, so no two workers receive the same
C2_DisjointIds ==
    \A i, j \in DOMAIN pulled : pulled[i] = pulled[j] => i = j

\* two workers hold ids at the same time, and the ids differ
C2_Witness ==
    \E v, w \in Workers :
       /\ v # w
       /\ wk[v].request_id # NoId
       /\ wk[w].request_id # NoId
       /\ wk[v].request_id # wk[w].request_id

\* C3: in a count-based run with a valid configuration every result targets
\* the url of index id mod url_count, and when the run has completed each url
\* has floor(N/K) or floor(N/K)+1 attempts, the latter only if K does not divide N
C3_BalancedUrls ==
    (~cfg.duration /\ ValidPlan) =>
        /\ \A k \in DOMAIN results :
              results[k].url = results[k].request_id % cfg.url_count
        /\ sup_pc = "done" =>
              \A url \in 0..(cfg.url_count - 1) :
                 \/ AttemptsOn(url) = cfg.num_requests \div cfg.url_count
                 \/ /\ cfg.num_requests % cfg.url_count # 0
                    /\ AttemptsOn(url) = (cfg.num_requests \div cfg.url_count) + 1

C3_Witness ==
    /\ ~cfg.duration
    /\ ValidPlan
    /\ sup_pc = "done"
    /\ cfg.url_count = 2
    /\ cfg.num_requests = 3
    /\ AttemptsOn(0) = 2
    /\ AttemptsOn(1) = 1

RunCompleted ==
    /\ sup_pc = "done"
    /\ end_time # NoTime
    /\ AllExited

\* C4: a count-based run without ramp terminates: every worker exits, the
\* join returns and end_time is recorded
C4_CountRunTerminates == CountNoRamp ~> RunCompleted

C4_Witness ==
    /\ CountNoRamp
    /\ RunCompleted
    /\ workers = 2
    /\ request_queue.taken = cfg.num_requests + cfg.concurrency

\* no task is left that could take a step, and ramp_up will create none
NoTaskLeft == AllExited /\ ramp_pc # "sleep"

\* the ids get() has returned so far
IdsPulled == Min(request_queue.taken, request_queue.ids)

\* successful task_done calls so far
Acks == request_queue.ids + request_queue.stops - unfinished_tasks

\* C5: in a duration-capped run, once the deadline has fired and the cancelled
\* workers have exited, the join on the queue returns and the run completes,
\* whatever number of ids is still on the queue
C5_DurationRunCompletes ==
    (cfg.duration /\ sup_pc = "join" /\ NoTaskLeft) => JoinReturns(unfinished_tasks)

\* C6: once all workers have exited there is one result per id pulled, a
\* request aborted by cancellation included
C6_ResultPerPulledId ==
    (sup_pc \in {"join", "close", "done"} /\ AllExited) => Len(results) = IdsPulled

\* C7: the queue is never acknowledged more often than it was pulled from
C7_AcksAtMostPulls == Acks <= request_queue.taken

\* C8: every result has response_time >= 0 and a timestamp not before
\* start_time; once end_time is recorded no result and no request in flight
\* has a timestamp after it
C8_TimesInRun ==
    /\ \A k \in DOMAIN results :
          /\ results[k].response_time >= 0
          /\ start_time # NoTime
          /\ start_time <= results[k].timestamp
          /\ sup_pc = "done" => results[k].timestamp <= end_time
    /\ \A w \in Workers :
          wk[w].timestamp # NoTime =>
             /\ start_time # NoTime
             /\ start_time <= wk[w].timestamp
             /\ sup_pc = "done" => wk[w].timestamp <= end_time

C8_Witness ==
    /\ sup_pc = "done"
    /\ start_time < end_time
    /\ \E k \in DOMAIN results :
          /\ results[k].response_time > 0
          /\ results[k].timestamp + results[k].response_time = end_time
    /\ \E k \in DOMAIN results : results[k].timestamp > start_time

\* the number of workers the configuration ever spawns
WorkersEverSpawned == IF cfg.step_load THEN cfg.step_max ELSE cfg.concurrency

\* C9: the queue is given exactly one stop signal per worker that is ever
\* spawned: concurrency without ramp, max with a ramp plan
C9_OneStopPerWorker ==
    (ValidPlan /\ sup_pc # "init") => request_queue.stops = WorkersEverSpawned

\* C10: a count-based run with a valid ramp plan terminates: once all ids
\* have results and no task is left, the join on the queue returns
C10_RampRunCompletes ==
    (/\ ~cfg.duration
     /\ cfg.step_load
     /\ ValidPlan
     /\ Len(results) = cfg.num_requests
     /\ NoTaskLeft
     /\ sup_pc = "join") => JoinReturns(unfinished_tasks)

\* step load is on with initial <= max
RampEnabled == cfg.step_load /\ cfg.step_initial <= cfg.step_max

\* C11: with ramp enabled the number of workers spawned starts at initial,
\* never decreases and never exceeds max
C11_WorkerCountBounded ==
    /\ [](RampEnabled /\ sup_pc # "init" =>
            /\ cfg.step_initial <= workers
            /\ workers <= cfg.step_max
            /\ ramp_steps = 0 => workers = cfg.step_initial)
    /\ [][workers' >= workers]_vars

C11_Witness ==
    /\ RampEnabled
    /\ cfg.step_initial < cfg.step_max
    /\ cfg.step_increment = 2
    /\ ramp_steps = 1
    /\ workers = cfg.step_max

CeilDiv(a, b) == (a + b - 1) \div b

WorkersCancelled == cfg.duration /\ sup_pc \in {"gather_cancelled", "join", "close", "done"}

\* C13: once the deadline has fired and run_test has cancelled the workers, no
\* worker is spawned and no id is pulled for a new request
C13_NoSpawnAfterCancel ==
    [][WorkersCancelled => (workers' = workers /\ pulled' = pulled)]_vars

\* C14: with ramp disabled exactly concurrency workers are spawned at the start
\* of the run and none later, in count-based and duration-based runs alike
C14_ExactlyConcurrencyWorkers ==
    /\ [](~cfg.step_load /\ sup_pc # "init" => workers = cfg.concurrency)
    /\ [][~cfg.step_load /\ sup_pc # "init" => workers' = workers]_vars

C14_Witness ==
    /\ ~cfg.step_load
    /\ cfg.duration
    /\ cfg.concurrency = 2
    /\ workers = 2
    /\ sup_pc = "join"

\* ---- make_request: the response path and its assertions

\* None as the value of --assert-status and of --assert-max-rt when not given
NoAssert == -1

\* --assert-body-contains when not given; None and "" are both falsy
NoSubstring == ""

\* the assertion settings cli.main copies to the tester
AssertionSpecs ==
    [assert_status : {NoAssert, 200, 500},
     assert_body_contains : {NoSubstring, "ok"},
     assert_max_rt : {NoAssert, 1}]

MaxResponseTime == 2

\* a response as make_request reads it: status, the substrings its decoded
\* body contains, len(response_data), and the time it took
Responses ==
    [status : {200, 500},
     body : {{}, {"ok"}},
     size : {0, 2},
     response_time : 0..MaxResponseTime]

StatusAssertFails(a, resp) ==
    a.assert_status # NoAssert /\ resp.status # a.assert_status

BodyAssertFails(a, resp) ==
    a.assert_body_contains # NoSubstring /\ a.assert_body_contains \notin resp.body

MaxRtAssertFails(a, resp) ==
    a.assert_max_rt # NoAssert /\ resp.response_time > a.assert_max_rt

EvaluateResponse_ResetOnPass(a, resp) ==
    LET e1 == IF StatusAssertFails(a, resp) THEN "AssertStatus" ELSE "nil"
        e2 == IF BodyAssertFails(a, resp) THEN "AssertBody" ELSE e1
        e3 == IF a.assert_max_rt # NoAssert
              THEN (IF MaxRtAssertFails(a, resp) THEN "AssertMaxRT" ELSE "nil")
              ELSE e2
    IN  [status_code |-> resp.status,
         response_time |-> resp.response_time,
         error |-> e3,
         response_size |-> resp.size]

\* make_request after response.read(): error starts as None and each of the
\* three `if` blocks, taken in turn, assigns it when its assertion fails
EvaluateResponse(a, resp) ==
    LET e1 == IF StatusAssertFails(a, resp) THEN "AssertStatus" ELSE "nil"
        e2 == IF BodyAssertFails(a, resp) THEN "AssertBody" ELSE e1
        e3 == IF MaxRtAssertFails(a, resp) THEN "AssertMaxRT" ELSE e2
    IN  [status_code |-> resp.status,
         response_time |-> resp.response_time,
         error |-> e3,
         response_size |-> resp.size]

\* ---- make_request: the request it builds and the paths without a response

\* config.data and config.data_file when not given; None and "" are both falsy
NoData == ""

\* the paths open() succeeds on
ReadableFiles == {"upload.bin", "body.txt"}

\* what reading a file gives
FileContent == [p \in ReadableFiles |-> IF p = "body.txt" THEN "text of body.txt"
                                             ELSE "bytes of upload.bin"]

\* config.headers when no -H was given
NoHeaders == [h \in {} |-> ""]

SetHeader(hs, k, v) == [h \in DOMAIN hs \cup {k} |-> IF h = k THEN v ELSE hs[h]]

\* what of the tester and its config make_request reads to build the request:
\* --form and --form-file entries split at '=', -d, -D, -T and the -H headers
RequestSettings ==
    [form : {<<>>, << <<"name", "v">> >>},
     form_file : {<<>>, << <<"f", "upload.bin">> >>, << <<"f", "missing.bin">> >>},
     data : {NoData, "raw body"},
     data_file : {NoData, "body.txt", "missing.txt"},
     content_type : {"text/html", "application/json"},
     headers : {NoHeaders, SetHeader(NoHeaders, "Content-Type", "text/plain")}]

\* a tester without form, body or custom header
PlainSettings ==
    [form |-> <<>>, form_file |-> <<>>, data |-> NoData, data_file |-> NoData,
     content_type |-> "text/html", headers |-> NoHeaders]

\* use_form
UseForm(st) == st.form # <<>> \/ st.form_file # <<>>

NoBody == [kind |-> "none", raw |-> "", fields |-> <<>>]

\* the FormData: the form fields, then one field per opened file
FormBody(st) ==
    [kind |-> "form", raw |-> "",
     fields |-> st.form \o [i \in 1..Len(st.form_file) |->
                               <<st.form_file[i][1], FileContent[st.form_file[i][2]]>>]]

RequestBody_RawFirst(st) ==
    IF st.data # NoData THEN [kind |-> "raw", raw |-> st.data, fields |-> <<>>]
    ELSE IF UseForm(st) THEN FormBody(st)
    ELSE IF st.data_file # NoData
    THEN [kind |-> "data_file", raw |-> FileContent[st.data_file], fields |-> <<>>]
    ELSE NoBody

\* kwargs['data'] as the if / elif / elif chain leaves it
RequestBody(st) ==
    IF UseForm(st) THEN FormBody(st)
    ELSE IF st.data # NoData THEN [kind |-> "raw", raw |-> st.data, fields |-> <<>>]
    ELSE IF st.data_file # NoData
    THEN [kind |-> "data_file", raw |-> FileContent[st.data_file], fields |-> <<>>]
    ELSE NoBody

\* kwargs['headers']: a copy of config.headers, with Content-Type added only
\* for a form and only when the user gave none
RequestHeaders(st) ==
    IF UseForm(st) /\ "Content-Type" \notin DOMAIN st.headers
    THEN SetHeader(st.headers, "Content-Type", "multipart/form-data")
    ELSE st.headers

\* how building the request ends: open() of a form file fails inside its own
\* try (the early return), open() of the body file raises to the outer except
Prepare(st) ==
    IF UseForm(st)
    THEN IF \E i \in 1..Len(st.form_file) : st.form_file[i][2] \notin ReadableFiles
         THEN "file_error" ELSE "built"
    ELSE IF st.data = NoData /\ st.data_file # NoData /\ st.data_file \notin ReadableFiles
    THEN "exception" ELSE "built"

\* a RequestResult built without a response: response_size keeps its default
ErrorResult(rt, e) ==
    [status_code |-> 0, response_time |-> rt, error |-> e, response_size |-> 0]

Unsent == [issued |-> FALSE, body |-> NoBody, headers |-> NoHeaders]

\* make_request on a fresh tester: the result it returns, the request it
\* handed to session.request, and tester.response_sizes afterwards; the time
\* an attempt took is c.response.response_time whether or not a response came
MakeRequest(c) ==
    LET st == c.settings
        req == [issued |-> TRUE, body |-> RequestBody(st), headers |-> RequestHeaders(st)]
    IN  IF Prepare(st) = "file_error"
        THEN [result |-> ErrorResult(0, "File error"), sent |-> Unsent,
              response_sizes |-> <<>>]
        ELSE IF Prepare(st) = "exception"
        THEN [result |-> ErrorResult(c.response.response_time, "exception"),
              sent |-> Unsent, response_sizes |-> <<>>]
        ELSE IF c.network = "exception"
        THEN [result |-> ErrorResult(c.response.response_time, "exception"),
              sent |-> req, response_sizes |-> <<>>]
        ELSE [result |-> EvaluateResponse(c.asserts, c.response),
              sent |-> req, response_sizes |-> <<c.response.size>>]

\* the configuration of a tester on which a single function is called
PlainConfig ==
    [num_requests |-> 1, concurrency |-> 1, url_count |-> 1, duration |-> FALSE,
     rate_limit |-> FALSE, step_load |-> FALSE, step_initial |-> 1, step_max |-> 1,
     step_increment |-> 1]

\* calls that obtain a response, under every assertion setting
InitAssert ==
    /\ cfg = PlainConfig
    /\ NotStarted
    /\ call \in [fn : {"make_request"}, asserts : AssertionSpecs, response : Responses,
                 settings : {PlainSettings}, network : {"response"}]
    /\ ret = NoCall

\* make_request returns; the lock block is entered only on the response path
MakeRequestReturns ==
    /\ call.fn = "make_request"
    /\ ret = NoCall
    /\ lock = NoHolder
    /\ LET out == MakeRequest(call)
       IN  /\ ret' = [fn |-> "make_request", result |-> out.result, sent |-> out.sent,
                      response_sizes |-> out.response_sizes]
           /\ lock' = IF out.response_sizes # <<>> THEN WithLock(lock, 1) ELSE lock
           /\ dns_times' = IF out.response_sizes # <<>>
                           THEN AppendTiming(dns_times, RequestTiming(trace_dns))
                           ELSE dns_times
           /\ connect_times' = IF out.response_sizes # <<>>
                               THEN AppendTiming(connect_times, RequestTiming(trace_connect))
                               ELSE connect_times
    /\ UNCHANGED <<cfg, now, sup_pc, start_time, end_time, request_queue, unfinished_tasks,
                   workers, gathered, wk, current_c, ramp_pc, ramp_steps, results, pulled,
                   call,
                   trace_dns, trace_connect>>

NextAssert == MakeRequestReturns

SpecAssert == InitAssert /\ [][NextAssert]_vars

\* calls under every request setting, with and without a status assertion,
\* with and without a response
InitRequest ==
    /\ cfg = PlainConfig
    /\ NotStarted
    /\ call \in [fn : {"make_request"},
                 asserts : {a \in AssertionSpecs : /\ a.assert_status \in {NoAssert, 200}
                                                   /\ a.assert_body_contains = NoSubstring
                                                   /\ a.assert_max_rt = NoAssert},
                 response : {r \in Responses : r.body = {}},
                 settings : RequestSettings,
                 network : {"response", "exception"}]
    /\ ret = NoCall

SpecRequest == InitRequest /\ [][NextAssert]_vars

Returned(f) == ret.fn = f

\* C15: whenever an expected status is configured and the response's status
\* differs from it, the result has the received status as status_code and an
\* error of the status-assertion kind, whatever the other assertions do.
C15_StatusAssertionKind ==
    (Returned("make_request") /\ StatusAssertFails(call.asserts, call.response)) =>
        /\ ret.result.status_code = call.response.status
        /\ ret.result.error = "AssertStatus"

AllAssertionsPass(a, resp) ==
    /\ a.assert_status # NoAssert => resp.status = a.assert_status
    /\ a.assert_body_contains # NoSubstring => a.assert_body_contains \in resp.body
    /\ a.assert_max_rt # NoAssert => resp.response_time <= a.assert_max_rt

MaxSamples == 4

\* a float as a quotient of two integers, den > 0
Frac(n, d) == [num |-> n, den |-> d]

LessEq(a, b) == a.num * b.den <= b.num * a.den

Equal(a, b) == a.num * b.den = b.num * a.den

\* the truth value Python gives a time: None and 0 are false
Truthy(t) == t # NoTime /\ t # 0

RECURSIVE Sum(_)
Sum(xs) == IF xs = <<>> THEN 0 ELSE Head(xs) + Sum(Tail(xs))

SumSq(xs) == Sum([i \in 1..Len(xs) |-> xs[i] * xs[i]])

Sorted(xs) == SortSeq(xs, LAMBDA a, b : a < b)

\* statistics.mean
Mean(xs) == Frac(Sum(xs), Len(xs))

\* statistics.median
Median(xs) ==
    LET d == Sorted(xs)
        n == Len(xs)
    IN  IF n % 2 = 1 THEN Frac(d[(n + 1) \div 2], 1)
        ELSE Frac(d[n \div 2] + d[n \div 2 + 1], 2)

\* the square of statistics.stdev: the sample variance
Variance(xs) ==
    LET n == Len(xs)
    IN  Frac(n * SumSq(xs) - Sum(xs) * Sum(xs), n * (n - 1))

\* statistics.quantiles(xs, n=n)[i-1], method 'exclusive', for len(xs) >= 2
Quantile(xs, n, i) ==
    LET d == Sorted(xs)
        ld == Len(xs)
        m == ld + 1
        j0 == (i * m) \div n
        j == IF j0 < 1 THEN 1 ELSE IF j0 > ld - 1 THEN ld - 1 ELSE j0
        delta == i * m - j * n
    IN  Frac(d[j] * (n - delta) + d[j + 1] * delta, n)

SuccessfulRequests(rs) == SelectSeq(rs, LAMBDA r : r.error = "nil")

FailedRequests_ByStatus(rs) == SelectSeq(rs, LAMBDA r : r.status_code = 0)

FailedRequests(rs) == SelectSeq(rs, LAMBDA r : r.error # "nil")

ResponseTimes(rs) ==
    LET ok == SuccessfulRequests(rs)
    IN  [i \in 1..Len(ok) |-> ok[i].response_time]

StatusCodeDistribution_AllResults(rs) ==
    [c \in {rs[i].status_code : i \in 1..Len(rs)} |->
        Len(SelectSeq(rs, LAMBDA r : r.status_code = c))]

\* the dict built by the loop over the successful results
StatusCodeDistribution(rs) ==
    LET ok == SuccessfulRequests(rs)
    IN  [c \in {ok[i].status_code : i \in 1..Len(ok)} |->
            Len(SelectSeq(ok, LAMBDA r : r.status_code = c))]

\* the dict built by the loop over the failed results
ErrorDistribution(rs) ==
    LET ko == FailedRequests(rs)
    IN  [e \in {ko[i].error : i \in 1..Len(ko)} |->
            Len(SelectSeq(ko, LAMBDA r : r.error = e))]

SeqMin(xs) == CHOOSE x \in {xs[i] : i \in 1..Len(xs)} : \A i \in 1..Len(xs) : x <= xs[i]

SeqMax(xs) == CHOOSE x \in {xs[i] : i \in 1..Len(xs)} : \A i \in 1..Len(xs) : x >= xs[i]

EmptyDict == [k \in {} |-> 0]

\* the `stats = {...}` literal; evaluated only when end_time - start_time is
\* not a zero divisor
BasicStats(rs, sizes, t0, t1) ==
    LET timed == Truthy(t1) /\ Truthy(t0)
    IN  [total_requests |-> Len(rs),
         successful_requests |-> Len(SuccessfulRequests(rs)),
         failed_requests |-> Len(FailedRequests(rs)),
         success_rate |-> Frac(Len(SuccessfulRequests(rs)) * 100, Len(rs)),
         total_duration |-> IF timed THEN Frac(t1 - t0, 1) ELSE Frac(0, 1),
         requests_per_second |-> IF timed THEN Frac(Len(rs), t1 - t0) ELSE Frac(0, 1),
         throughput_bytes_per_sec |->
             IF sizes # <<>> /\ timed THEN Frac(Sum(sizes), t1 - t0) ELSE Frac(0, 1)]

\* the `if response_times:` block
ResponseTimeStats(rt) ==
    IF rt = <<>> THEN EmptyDict
    ELSE [min_response_time |-> Frac(SeqMin(rt), 1),
          max_response_time |-> Frac(SeqMax(rt), 1),
          mean_response_time |-> Mean(rt),
          median_response_time |-> Median(rt),
          std_response_time |-> IF Len(rt) > 1 THEN Variance(rt) ELSE Frac(0, 1),
          p25_response_time |-> IF Len(rt) > 3 THEN Quantile(rt, 4, 1) ELSE Frac(rt[1], 1),
          p50_response_time |-> IF Len(rt) > 1 THEN Quantile(rt, 2, 1) ELSE Frac(rt[1], 1),
          p75_response_time |-> IF Len(rt) > 3 THEN Quantile(rt, 4, 3) ELSE Frac(rt[Len(rt)], 1),
          p90_response_time |-> IF Len(rt) > 9 THEN Quantile(rt, 10, 9) ELSE Frac(SeqMax(rt), 1),
          p95_response_time |-> IF Len(rt) > 19 THEN Quantile(rt, 20, 19) ELSE Frac(SeqMax(rt), 1),
          p99_response_time |-> IF Len(rt) > 99 THEN Quantile(rt, 100, 99) ELSE Frac(SeqMax(rt), 1)]

\* the `if response_sizes:` block
ResponseSizeStats(sizes) ==
    IF sizes = <<>> THEN EmptyDict
    ELSE [min_response_size |-> Frac(SeqMin(sizes), 1),
          max_response_size |-> Frac(SeqMax(sizes), 1),
          mean_response_size |-> Mean(sizes),
          median_response_size |-> Median(sizes)]

\* the `if self.dns_times:` block
DnsTimeStats(dns) ==
    IF dns = <<>> THEN EmptyDict
    ELSE [mean_dns_time |-> Mean(dns), max_dns_time |-> Frac(SeqMax(dns), 1)]

\* the `if self.connect_times:` block
ConnectTimeStats(conn) ==
    IF conn = <<>> THEN EmptyDict
    ELSE [mean_connect_time |-> Mean(conn), max_connect_time |-> Frac(SeqMax(conn), 1)]

\* generate_statistics: the dict it returns, or the exception it raises
GenerateStatistics(rs, sizes, dns, conn, t0, t1) ==
    IF rs = <<>> THEN [raised |-> "none", stats |-> EmptyDict]
    ELSE IF Truthy(t1) /\ Truthy(t0) /\ t1 - t0 = 0
    THEN [raised |-> "ZeroDivisionError", stats |-> EmptyDict]
    ELSE [raised |-> "none",
          stats |-> BasicStats(rs, sizes, t0, t1)
                    @@ ResponseTimeStats(ResponseTimes(rs))
                    @@ [status_code_distribution |-> StatusCodeDistribution(rs),
                        error_distribution |-> ErrorDistribution(rs)]
                    @@ ResponseSizeStats(sizes)
                    @@ DnsTimeStats(dns)
                    @@ ConnectTimeStats(conn)]

\* results as make_request returns them: responses without error, a response
\* that failed an assertion, and a captured exception
SampleResults ==
    {[status_code |-> 200, response_time |-> t, error |-> "nil", response_size |-> 2] :
        t \in 0..MaxResponseTime}
    \cup {[status_code |-> 404, response_time |-> 0, error |-> "nil", response_size |-> 0],
          [status_code |-> 500, response_time |-> 1, error |-> "AssertStatus",
           response_size |-> 2],
          [status_code |-> 0, response_time |-> 0, error |-> "exception",
           response_size |-> 0]}

Sinks == UNION {[1..k -> SampleResults] : k \in 0..MaxSamples}

\* tester.response_sizes: make_request appends len(response_data) for every
\* response it obtained, with or without assertion failure
ResponseSizesOf(rs) ==
    LET got == SelectSeq(rs, LAMBDA r : r.status_code # 0)
    IN  [i \in 1..Len(got) |-> got[i].response_size]

\* tester.dns_times and tester.connect_times after run_test: empty, or the
\* one sample of the trace slot
TimingLists == {<<>>, <<1>>}

\* a tester after run_test, with the Sink and the two times of the run
InitStats ==
    /\ cfg = PlainConfig
    /\ sup_pc = "done"
    /\ start_time = 1
    /\ end_time \in 1..(MaxClock + 1)
    /\ now = end_time
    /\ request_queue = [ids |-> 0, stops |-> 0, taken |-> 0]
    /\ unfinished_tasks = 0
    /\ workers = 0
    /\ gathered = 0
    /\ wk = [w \in Workers |-> IdleWorker]
    /\ current_c = 0
    /\ ramp_pc = "none"
    /\ ramp_steps = 0
    /\ results \in Sinks
    /\ pulled = <<>>
    /\ lock = NoHolder
    /\ trace_dns = EmptySlot
    /\ trace_connect = EmptySlot
    /\ dns_times \in TimingLists
    /\ connect_times \in TimingLists
    /\ call = [fn |-> "generate_statistics", response_sizes |-> ResponseSizesOf(results)]
    /\ ret = NoCall

\* the data of the tester that generate_statistics reads
TesterData ==
    [results |-> results, response_sizes |-> call.response_sizes,
     dns_times |-> dns_times, connect_times |-> connect_times,
     start_time |-> start_time, end_time |-> end_time]

AfterStatistics_DrainsSizes(t) == [t EXCEPT !.response_sizes = <<>>]

\* the tester's data after generate_statistics: it assigns no attribute of
\* self, the lists it filters are new lists, and min, max, sum and the
\* statistics functions leave their argument as it is (median and quantiles
\* sort a copy)
AfterStatistics(t) == t

\* what a call of generate_statistics does to the tester
StatisticsEffect ==
    LET t == AfterStatistics(TesterData)
    IN  /\ results' = t.results
        /\ call' = [call EXCEPT !.response_sizes = t.response_sizes]
        /\ dns_times' = t.dns_times
        /\ connect_times' = t.connect_times
        /\ start_time' = t.start_time
        /\ end_time' = t.end_time

\* main's call for the terminal summary
GenerateStatisticsReturns ==
    /\ call.fn = "generate_statistics"
    /\ ret = NoCall
    /\ ret' = [fn |-> "generate_statistics",
               out |-> GenerateStatistics(results, call.response_sizes, dns_times, connect_times,
                                          start_time, end_time)]
    /\ StatisticsEffect
    /\ UNCHANGED <<cfg, now, sup_pc, request_queue, unfinished_tasks,
                   workers, gathered, wk, current_c, ramp_pc, ramp_steps, pulled,
                   lock, trace_dns, trace_connect>>

\* generate_pdf_report's call on the same tester, reached when the first call
\* returned
GenerateStatisticsAgain ==
    /\ call.fn = "generate_statistics"
    /\ ret # NoCall
    /\ ret.out.raised = "none"
    /\ "again" \notin DOMAIN ret
    /\ ret' = [fn |-> "generate_statistics",
               out |-> ret.out,
               again |-> GenerateStatistics(results, call.response_sizes, dns_times,
                                            connect_times, start_time, end_time)]
    /\ StatisticsEffect
    /\ UNCHANGED <<cfg, now, sup_pc, request_queue, unfinished_tasks,
                   workers, gathered, wk, current_c, ramp_pc, ramp_steps, pulled,
                   lock, trace_dns, trace_connect>>

NextStats ==
    \/ GenerateStatisticsReturns
    \/ GenerateStatisticsAgain

SpecStats == InitStats /\ [][NextStats]_vars

\* generate_statistics returned a dict for a non-empty Sink
StatsReported == Returned("generate_statistics") /\ results # <<>> /\ ret.out.raised = "none"

Has(field) == field \in DOMAIN ret.out.stats

RECURSIVE DictTotal(_)
DictTotal(d) ==
    IF DOMAIN d = {} THEN 0
    ELSE LET k == CHOOSE x \in DOMAIN d : TRUE
         IN  d[k] + DictTotal([x \in DOMAIN d \ {k} |-> d[x]])

\* C17: for every non-empty Sink the statistics reported satisfy
\* successful_requests + failed_requests = total_requests = number of results,
\* and the counts of status_code_distribution sum to at most total_requests.
C17_CountsAddUp ==
    StatsReported =>
        LET st == ret.out.stats
        IN  /\ st.successful_requests + st.failed_requests = st.total_requests
            /\ st.total_requests = Len(results)
            /\ DictTotal(st.status_code_distribution) <= st.total_requests

\* a Sink with a success, an assertion failure and a captured exception
C17_Witness ==
    /\ StatsReported
    /\ Len(results) = 3
    /\ \E i, j, k \in 1..3 :
          /\ results[i].error = "nil"
          /\ results[j].error = "AssertStatus"
          /\ results[k].status_code = 0
    /\ ret.out.stats.successful_requests = 1
    /\ ret.out.stats.failed_requests = 2

\* C18: for every non-empty list of successful response times, of any length
\* and in any order, min <= P25 <= P50 <= P75 <= P90 <= P95 <= P99 <= max.
C18_PercentilesMonotone ==
    (StatsReported /\ Has("min_response_time")) =>
        LET st == ret.out.stats
        IN  /\ LessEq(st.min_response_time, st.p25_response_time)
            /\ LessEq(st.p25_response_time, st.p50_response_time)
            /\ LessEq(st.p50_response_time, st.p75_response_time)
            /\ LessEq(st.p75_response_time, st.p90_response_time)
            /\ LessEq(st.p90_response_time, st.p95_response_time)
            /\ LessEq(st.p95_response_time, st.p99_response_time)
            /\ LessEq(st.p99_response_time, st.max_response_time)

\* C19: with fewer than 4 successful samples P25 is the sample minimum and
\* P75 the sample maximum, and with fewer than 10, 20, 100 samples P90, P95,
\* P99 are the sample maximum, in whatever order the results sit in the Sink.
C19_SmallSampleFallback ==
    (StatsReported /\ Has("min_response_time")) =>
        LET st == ret.out.stats
            n == st.successful_requests
        IN  /\ n < 4 => /\ Equal(st.p25_response_time, st.min_response_time)
                        /\ Equal(st.p75_response_time, st.max_response_time)
            /\ n < 10 => Equal(st.p90_response_time, st.max_response_time)
            /\ n < 20 => Equal(st.p95_response_time, st.max_response_time)
            /\ n < 100 => Equal(st.p99_response_time, st.max_response_time)

NumericFields ==
    {"success_rate", "total_duration", "requests_per_second", "throughput_bytes_per_sec",
     "min_response_time", "max_response_time", "mean_response_time",
     "median_response_time", "std_response_time", "p25_response_time",
     "p50_response_time", "p75_response_time", "p90_response_time", "p95_response_time",
     "p99_response_time", "min_response_size", "max_response_size", "mean_response_size",
     "median_response_size"}

\* C20: for every completed run with a non-empty Sink generate_statistics
\* does not fail and every numeric field it reports is finite, also when
\* end_time = start_time and when no request succeeded; the response-time
\* fields are absent when there is no successful response time.
C20_StatisticsNeverFail ==
    (Returned("generate_statistics") /\ results # <<>>) =>
        /\ ret.out.raised = "none"
        /\ \A f \in NumericFields \cap DOMAIN ret.out.stats : ret.out.stats[f].den # 0
        /\ SuccessfulRequests(results) = <<>> => ~Has("min_response_time")

\* C21: the statistics report success_rate = successful / total * 100 when
\* the Sink is not empty, and for a completed run with an empty Sink they
\* report total_requests = 0 and success_rate = 0, the fields main prints.
C21_SuccessRate ==
    Returned("generate_statistics") =>
        /\ StatsReported =>
              Equal(ret.out.stats.success_rate,
                    Frac(Len(SuccessfulRequests(results)) * 100, Len(results)))
        /\ results = <<>> =>
              /\ ret.out.raised = "none"
              /\ Has("total_requests") /\ ret.out.stats.total_requests = 0
              /\ Has("success_rate") /\ Equal(ret.out.stats.success_rate, Frac(0, 1))

\* C22: response sizes are recorded for successful responses only: a call
\* leaves one sample in the response-size vector when its result has no
\* error and none otherwise, and every result that carries an error, an
\* assertion failure included, has response_size = 0.
C22_SizesOfSuccessesOnly ==
    Returned("make_request") =>
        /\ ret.result.error = "nil" => Len(ret.response_sizes) = 1
        /\ ret.result.error # "nil" =>
              /\ ret.response_sizes = <<>>
              /\ ret.result.response_size = 0

\* C27: the body of a request that is sent is chosen by strict precedence:
\* the multipart form if any form field or form file is configured (data and
\* data_file ignored), otherwise the raw body if set, otherwise the content
\* of the body file if set, otherwise no body.
C27_BodyPrecedence ==
    (Returned("make_request") /\ ret.sent.issued) =>
        LET st == call.settings
            body == ret.sent.body
        IN  /\ (st.form # <<>> \/ st.form_file # <<>>) =>
                  /\ body.kind = "form"
                  /\ Len(body.fields) = Len(st.form) + Len(st.form_file)
                  /\ body.raw = ""
            /\ (st.form = <<>> /\ st.form_file = <<>> /\ st.data # NoData) =>
                  body = [kind |-> "raw", raw |-> st.data, fields |-> <<>>]
            /\ (st.form = <<>> /\ st.form_file = <<>> /\ st.data = NoData
                /\ st.data_file # NoData) =>
                  body = [kind |-> "data_file", raw |-> FileContent[st.data_file],
                          fields |-> <<>>]
            /\ (st.form = <<>> /\ st.form_file = <<>> /\ st.data = NoData
                /\ st.data_file = NoData) =>
                  body.kind = "none"

\* a form field, a raw body and a body file are all configured and the form is sent
C27_Witness ==
    /\ Returned("make_request")
    /\ ret.sent.issued
    /\ call.settings.form # <<>>
    /\ call.settings.data # NoData
    /\ call.settings.data_file # NoData
    /\ ret.sent.body.kind = "form"

\* C28: when no form is present and a raw body is set, the headers of the
\* outgoing request carry the configured content_type as Content-Type and
\* the body is exactly the configured bytes.
C28_ContentTypeWithRawBody ==
    (/\ Returned("make_request")
     /\ ret.sent.issued
     /\ ~UseForm(call.settings)
     /\ call.settings.data # NoData) =>
        /\ ret.sent.body.raw = call.settings.data
        /\ "Content-Type" \in DOMAIN ret.sent.headers
        /\ ret.sent.headers["Content-Type"] = call.settings.content_type

\* worker w is suspended in the pacing sleep
Pacing(w) == wk[w].pc = "sleep"

\* worker w is suspended in make_request
Dispatched(w) == wk[w].pc = "request"

\* C25: with rate_limit set, every dispatch by a worker comes out of one
\* pacing sleep which that worker began when it pulled the id it dispatches,
\* so a full sleep of 1/R lies between two dispatches of the same worker;
\* without rate_limit there is no sleep; a worker that pulls a stop signal
\* exits without pacing.
C25_PacedDispatch ==
    [][\A w \in Workers :
          /\ (Dispatched(w)' /\ ~Dispatched(w)) =>
                IF cfg.rate_limit
                THEN Pacing(w) /\ wk'[w].request_id = wk[w].request_id
                ELSE wk[w].pc = "get"
          /\ (Pacing(w)' /\ ~Pacing(w)) =>
                /\ cfg.rate_limit
                /\ wk[w].pc = "get"
                /\ pulled' = Append(pulled, wk'[w].request_id)
          /\ (wk[w].pc = "get" /\ wk'[w].pc # "get" /\ ~wk[w].cancel
              /\ request_queue' # request_queue /\ QueueFront(request_queue) = STOP) =>
                Exited(w)'
      ]_vars

\* a rate-limited worker is in its second dispatch
C25_Witness ==
    /\ cfg.rate_limit
    /\ cfg.concurrency = 1
    /\ ~cfg.step_load
    /\ Len(results) = 1
    /\ Dispatched(1)
    /\ wk[1].request_id = 1

\* C26: a request that fails does not end the worker: the step in which a
\* request completes, with a response or with a captured failure, adds one
\* result for the id held, a failure's result has status_code = 0 and an
\* error, the id is acknowledged (the queue's count of unfinished items goes
\* down by one, unless surplus acknowledgements have already brought it to
\* zero), and the worker is back at the pull.
C26_FailureKeepsWorker ==
    [][\A w \in Workers :
          (Dispatched(w) /\ ~wk[w].cancel /\ ~Dispatched(w)') =>
              /\ Len(results') = Len(results) + 1
              /\ LET r == results'[Len(results')]
                 IN  /\ r.request_id = wk[w].request_id
                     /\ r.status_code = 0 <=> r.error # "nil"
              /\ unfinished_tasks' = IF unfinished_tasks > 0 THEN unfinished_tasks - 1 ELSE 0
              /\ wk'[w].pc = "get"
      ]_vars

\* the only worker recorded a failure and is dispatching the next id
C26_Witness ==
    /\ cfg.concurrency = 1
    /\ ~cfg.step_load
    /\ Len(results) = 1
    /\ results[1].status_code = 0
    /\ results[1].error # "nil"
    /\ Dispatched(1)

C30_SinkAppendOnly ==
    [][\/ results' = results
       \/ /\ Len(results') = Len(results) + 1
          /\ SubSeq(results', 1, Len(results)) = results
      ]_vars

\* two different results sit in the Sink
C30_Witness ==
    /\ Len(results) >= 2
    /\ results[1] # results[2]

\* ---- cli.main: from the parsed arguments to the run

\* args.auth when -a was not given
NoAuth == <<>>

\* the arguments main hands to create_test_config_from_args; -a is kept as
\* its characters, the step-load options are either absent or 1 / most / 1
Args ==
    [num_requests : 1..MaxRequests,
     concurrency : 1..MaxConcurrency,
     duration : BOOLEAN,
     rate_limit : BOOLEAN,
     step_load : BOOLEAN,
     data : {NoData, "raw body"},
     data_file : {NoData, "body.txt"},
     auth : {NoAuth, <<"u", ":", "p">>, <<"u", "p">>}]

\* parse_auth_from_args: None, the pair split at the first ':', or ValueError
ParseAuth(auth) ==
    IF auth = NoAuth THEN [raised |-> "none", auth |-> <<>>]
    ELSE IF \E i \in 1..Len(auth) : auth[i] = ":"
    THEN LET k == CHOOSE i \in 1..Len(auth) :
                    auth[i] = ":" /\ \A j \in 1..(i - 1) : auth[j] # ":"
         IN  [raised |-> "none",
              auth |-> <<SubSeq(auth, 1, k - 1), SubSeq(auth, k + 1, Len(auth))>>]
    ELSE [raised |-> "ValueError", auth |-> <<>>]

\* the fields of the TestConfig and the step-load settings main copies to the tester
ConfigOf(a) ==
    [num_requests |-> a.num_requests, concurrency |-> a.concurrency, url_count |-> 1,
     duration |-> a.duration, rate_limit |-> a.rate_limit, step_load |-> a.step_load,
     step_initial |-> 1,
     step_max |-> IF a.step_load THEN MaxConcurrency ELSE a.concurrency,
     step_increment |-> 1]

CreateTestConfig_NoChecks(a) == [raised |-> "none", config |-> ConfigOf(a)]

\* create_test_config_from_args: the auth is parsed, then the two checks
CreateTestConfig(a) ==
    IF ParseAuth(a.auth).raised # "none"
    THEN [raised |-> "ValueError", config |-> PlainConfig]
    ELSE IF a.num_requests < a.concurrency
    THEN [raised |-> "ValueError", config |-> PlainConfig]
    ELSE IF a.data # NoData /\ a.data_file # NoData
    THEN [raised |-> "ValueError", config |-> PlainConfig]
    ELSE [raised |-> "none", config |-> ConfigOf(a)]

\* main after parse_args: no TestConfig and no tester yet
InitMain ==
    /\ cfg = PlainConfig
    /\ now = 0
    /\ sup_pc = "args"
    /\ start_time = NoTime
    /\ end_time = NoTime
    /\ request_queue = [ids |-> 0, stops |-> 0, taken |-> 0]
    /\ unfinished_tasks = 0
    /\ workers = 0
    /\ gathered = 0
    /\ wk = [w \in Workers |-> IdleWorker]
    /\ current_c = 0
    /\ ramp_pc = "none"
    /\ ramp_steps = 0
    /\ results = <<>>
    /\ pulled = <<>>
    /\ lock = NoHolder
    /\ trace_dns = EmptySlot
    /\ trace_connect = EmptySlot
    /\ dns_times = <<>>
    /\ connect_times = <<>>
    /\ call \in [fn : {"main"}, args : Args]
    /\ ret = NoCall

\* main's first try block up to asyncio.run: the configuration is created
\* and the tester set up, or the ValueError is printed and main returns 1
MainConfigure ==
    /\ call.fn = "main"
    /\ sup_pc = "args"
    /\ ret = NoCall
    /\ LET made == CreateTestConfig(call.args)
       IN  IF made.raised = "none"
           THEN /\ cfg' = made.config
                /\ sup_pc' = "init"
                /\ ret' = ret
           ELSE /\ cfg' = cfg
                /\ sup_pc' = sup_pc
                /\ ret' = [fn |-> "main", code |-> 1]
    /\ UNCHANGED <<now, start_time, end_time, request_queue, unfinished_tasks,
                   workers, gathered, wk, current_c, ramp_pc, ramp_steps, results, pulled,
                   call, lock,
                   trace_dns, trace_connect, dns_times, connect_times>>

NextMain ==
    \/ MainConfigure
    \/ Next

SpecMain == InitMain /\ [][NextMain]_vars

\* main returned 1 from its first try block
Rejected == Returned("main") /\ ret.code = 1

\* main passed create_test_config_from_args
Accepted == call.fn = "main" /\ sup_pc # "args"

\* C23: when duration is set num_requests plays no role: the configuration
\* main was given is accepted exactly if every configuration that differs
\* from it only in num_requests is accepted, and when accepted both enqueue
\* the same work.
C23_DurationIgnoresCount ==
    (call.fn = "main" /\ call.args.duration /\ (Rejected \/ Accepted)) =>
        \A n \in 1..MaxRequests :
            LET other == CreateTestConfig([call.args EXCEPT !.num_requests = n])
            IN  /\ Accepted <=> other.raised = "none"
                /\ Accepted => /\ FillQueue(other.config) = FillQueue(cfg)
                               /\ InitialWorkers(other.config) = InitialWorkers(cfg)

\* the three configuration errors, as the arguments show them
ConfigError(a) ==
    \/ a.data # NoData /\ a.data_file # NoData
    \/ a.num_requests < a.concurrency
    \/ a.auth # NoAuth /\ \A i \in 1..Len(a.auth) : a.auth[i] # ":"

\* C24: a configuration error (body and body file both set, num_requests <
\* concurrency, auth without a colon) is raised while the TestConfig is
\* created and prevents the run: run_test is never entered, no worker is
\* spawned, no id is pulled, the Sink stays empty, and main returns 1.
C24_ConfigErrorPreventsRun ==
    (call.fn = "main" /\ ConfigError(call.args)) =>
        /\ sup_pc = "args"
        /\ workers = 0
        /\ pulled = <<>>
        /\ results = <<>>
        /\ ret # NoCall => Rejected

\* main has returned 1 for an auth without colon
C24_Witness ==
    /\ Rejected
    /\ call.args.auth = <<"u", "p">>
    /\ call.args.num_requests >= call.args.concurrency
    /\ call.args.data = NoData
    /\ workers = 0
    /\ results = <<>>

\* the ids held by workers that are pacing or in a request
HeldIds == {wk[w].request_id : w \in {v \in Workers : Pacing(v) \/ Dispatched(v)}}

\* the drain has returned: run_test is past request_queue.join()
Drained == sup_pc \in {"close", "done"}

\* C31: the worker submits the result of a completed request before it
\* acknowledges the id: the step in which a worker ends its request and
\* acknowledges the id leaves a new result of that id in the Sink (append and
\* task_done run with no suspension between them, so the step is one); hence,
\* in a count-based run, once the drain has
\* returned every id pulled has its result in the Sink, unless a worker
\* still holds it.
C31_SubmitBeforeAck ==
    /\ [][\A w \in Workers :
            (Dispatched(w) /\ ~wk[w].cancel /\ ~Dispatched(w)') =>
                \E k \in DOMAIN results' :
                    /\ k > Len(results)
                    /\ results'[k].request_id = wk[w].request_id
         ]_vars
    /\ []((~cfg.duration /\ Drained) =>
            \A i \in 1..Len(pulled) :
                ResultsOf(pulled[i]) # {} \/ pulled[i] \in HeldIds)

\* a count-based run is over with a result for each of its two or more ids,
\* a captured error among them
C31_Witness ==
    /\ ~cfg.duration
    /\ sup_pc = "done"
    /\ Len(results) = cfg.num_requests
    /\ Len(results) >= 2
    /\ \E k \in DOMAIN results : results[k].error # "nil"

\* the requests in flight
InFlight == Cardinality({w \in Workers : Dispatched(w)})

\* C32: the number of requests in flight is at most the number of workers
\* spawned so far, and with a valid configuration (1 <= initial <= max <=
\* concurrency when ramping) it never exceeds concurrency.
C32_InFlightBounded ==
    /\ InFlight <= workers
    /\ ValidPlan => InFlight <= cfg.concurrency

\* every worker of a run with concurrency 2 is in a request
C32_Witness ==
    /\ cfg.concurrency = 2
    /\ ValidPlan
    /\ workers = 2
    /\ InFlight = 2

\* C35: in a count-based run no worker pulls a stop signal while an id is
\* still on the queue: a pull made while an id remains hands out an id and
\* keeps the worker, and the step in which a worker takes a stop signal and
\* exits finds every id 0..num_requests-1 already pulled.
C35_StopAfterAllIds ==
    [][\A w \in Workers :
        (/\ ~cfg.duration
         /\ wk[w].pc = "get"
         /\ wk'[w] # wk[w]
         /\ request_queue'.taken = request_queue.taken + 1) =>
            IF Exited(w)'
            THEN /\ {pulled[i] : i \in 1..Len(pulled)} = 0..(cfg.num_requests - 1)
                 /\ pulled' = pulled
            ELSE /\ request_queue.taken < request_queue.ids
                 /\ pulled' = Append(pulled, request_queue.taken)
                 /\ wk'[w].request_id = request_queue.taken
      ]_vars

\* a worker has taken a stop signal after three ids were pulled
C35_Witness ==
    /\ ~cfg.duration
    /\ cfg.num_requests = 3
    /\ Len(pulled) = 3
    /\ request_queue.taken > request_queue.ids
    /\ \E w \in Workers : Exited(w)

\* C36: in a count-based run with a ramp plan whose max is concurrency,
\* end_time is not recorded before ramp_up has spawned all max workers, even
\* when all results are in: each stop signal is taken by a different worker,
\* and a worker spawned after the ids ran out exits on its first pull
\* without a result.
C36_EndAfterFullRamp ==
    /\ []((/\ ~cfg.duration
           /\ RampEnabled
           /\ cfg.step_max = cfg.concurrency
           /\ Drained) =>
              /\ workers = cfg.step_max
              /\ ramp_pc = "done"
              /\ Len(results) <= cfg.num_requests
              /\ end_time # NoTime => AllExited)
    /\ [][\A w \in Workers :
            (/\ ~cfg.duration
             /\ RampEnabled
             /\ cfg.step_max = cfg.concurrency
             /\ wk[w].pc = "get"
             /\ request_queue.taken >= request_queue.ids
             /\ wk'[w] # wk[w]) =>
                /\ QueueFront(request_queue) = STOP
                /\ request_queue'.taken = request_queue.taken + 1
                /\ Exited(w)'
                /\ results' = results
         ]_vars

\* the run of a plan 1 -> 2 is over; the second worker was spawned after the
\* only worker had all ids
C36_Witness ==
    /\ ~cfg.duration
    /\ cfg.step_load
    /\ cfg.step_initial = 1
    /\ cfg.step_max = 2
    /\ cfg.concurrency = 2
    /\ end_time # NoTime
    /\ workers = 2
    /\ Len(results) = cfg.num_requests

\* the positions of the Sink whose result has no error, and those whose
\* result has one
NilErrorAt == {i \in 1..Len(results) : results[i].error = "nil"}

ErrorAt == {i \in 1..Len(results) : results[i].error # "nil"}

\* C33: status_code_distribution counts exactly the results whose error is
\* nil (one key per status among them, its counts sum to successful_requests,
\* status 0 is never a key), and error_distribution counts exactly the
\* results whose error is not nil, keyed by error message (its counts sum to
\* failed_requests).
C33_DistributionsPartition ==
    StatsReported =>
        LET st == ret.out.stats
            sc == st.status_code_distribution
            er == st.error_distribution
        IN  /\ DOMAIN sc = {results[i].status_code : i \in NilErrorAt}
            /\ \A c \in DOMAIN sc :
                  sc[c] = Cardinality({i \in NilErrorAt : results[i].status_code = c})
            /\ DictTotal(sc) = st.successful_requests
            /\ DictTotal(sc) = Cardinality(NilErrorAt)
            /\ 0 \notin DOMAIN sc
            /\ DOMAIN er = {results[i].error : i \in ErrorAt}
            /\ \A e \in DOMAIN er :
                  er[e] = Cardinality({i \in ErrorAt : results[i].error = e})
            /\ DictTotal(er) = st.failed_requests
            /\ DictTotal(er) = Cardinality(ErrorAt)

\* statistics of a Sink with two 200s, a failed assertion on a 500 and a
\* captured exception
C33_Witness ==
    /\ StatsReported
    /\ Len(results) = 4
    /\ DOMAIN ret.out.stats.status_code_distribution = {200}
    /\ ret.out.stats.status_code_distribution[200] = 2
    /\ DOMAIN ret.out.stats.error_distribution = {"AssertStatus", "exception"}
    /\ \E i \in 1..4 : results[i].status_code = 500

\* the sample the final collection takes from a slot
SlotSample(slot) == IF SlotComplete(slot) THEN <<slot.end - slot.start>> ELSE <<>>

\* C34: however many requests a run issues and whatever the HTTP client
\* reports, no timing sample is appended while the run is in progress, and a
\* completed run holds at most one DNS sample and at most one connect sample:
\* end - start of the trace slot as the callbacks last overwrote it, if the
\* slot has both.
C34_OneTimingSamplePerRun ==
    /\ Len(dns_times) <= 1
    /\ Len(connect_times) <= 1
    /\ sup_pc # "done" => dns_times = <<>> /\ connect_times = <<>>
    /\ sup_pc = "done" =>
          /\ dns_times = SlotSample(trace_dns)
          /\ connect_times = SlotSample(trace_connect)

\* a run of three requests is over with one DNS sample, and with a connect
\* sample whose start was overwritten after its end
C34_Witness ==
    /\ sup_pc = "done"
    /\ Len(results) = 3
    /\ \A k \in 1..3 : results[k].error = "nil"
    /\ dns_times = <<1>>
    /\ connect_times = <<-1>>

\* generate_statistics has returned a second time on the same tester
ReportedTwice == Returned("generate_statistics") /\ "again" \in DOMAIN ret

====
